---- MODULE Spec2Model ----
(***************************************************************************)
(* luanacha: the Lua binding of the authenticated-encryption and           *)
(* X25519 key-exchange functions (src/src/luanacha.c).                     *)
(*                                                                         *)
(* Byte strings are sequences of integers 0..255.  A Lua value is a tagged *)
(* record.  Every binding function ln_* is an operator from its arguments  *)
(* to the outcome of the call (values returned, error raised, primitive    *)
(* calls made); the actions apply them to inputs a Lua caller supplies.    *)
(* The Monocypher primitives crypto_* are not part of luanacha.c; they are *)
(* modelled by a small stream cipher / MAC / Diffie-Hellman group with the *)
(* interface the binding relies on.                                        *)
(***************************************************************************)
EXTENDS Integers, Sequences, FiniteSets, TLC

VARIABLES fn,     \* name of the binding function called last ("" initially)
          args,   \* the Lua arguments of that call
          out,    \* its outcome: [st, ret, err, prim]
          drawn,  \* the bytes randombytes() supplied during that call
          box,    \* caller side: <<>> or <<[k, n, m, pfx, env]>>, the last Lock
          ring    \* caller side: up to two key pairs [sk, pk]

vars == <<fn, args, out, drawn, box, ring>>

----------------------------------------------------------------------------
(* Program constants *)

KeyLen == 32
NonceLen == 24
TagLen == 16
PfxAlign == 8
X25519Len == 32
ByteMod == 256

(* Bounds of the model *)

MaxMsgLen == 2      \* longest plaintext
MaxPfxBlocks == 1   \* prefixes of 0 .. PfxAlign * MaxPfxBlocks + 1 bytes
MaxSeed == 3        \* number of distinct values the random source supplies
SizeBits == 29      \* width of size_t in the model (TLC integers are 32-bit)

SizeMod == 2 ^ SizeBits

----------------------------------------------------------------------------
(* Lua values *)

NoArg == [t |-> "none"]
LNil == [t |-> "nil"]
LStr(b) == [t |-> "string", b |-> b]
LText(x) == [t |-> "string", x |-> x]
LInt(i) == [t |-> "number", i |-> i]
\* a string of n bytes whose contents the C standard does not determine
LUndef(n) == [t |-> "string", undef |-> n]

luaL_optlstring(a, d) == IF a.t \in {"none", "nil"} THEN d ELSE a.b
luaL_optinteger(a, d) == IF a.t \in {"none", "nil"} THEN d ELSE a.i

(* Outcomes of a call *)

Return(vals, prim) == [st |-> "return", ret |-> vals, err |-> "", prim |-> prim]
LERR(msg) == [st |-> "error", ret |-> <<>>, err |-> msg, prim |-> <<>>]
Abort(prim) == [st |-> "abort", ret |-> <<>>, err |-> "", prim |-> prim]

(* C memory *)

size_t(x) == x % SizeMod
Uninit == -1
malloc(n) == [j \in 1..n |-> Uninit]
\* bytes written at buf + off; a write past the end of buf is not kept
memwrite(buf, off, bytes) ==
  [j \in 1..Len(buf) |->
     IF off < j /\ j <= off + Len(bytes) THEN bytes[j - off] ELSE buf[j]]
lua_pushlstring(buf, n) == LStr(SubSeq(buf, 1, n))

RECURSIVE Sum(_)
Sum(s) == IF s = <<>> THEN 0 ELSE Head(s) + Sum(Tail(s))

----------------------------------------------------------------------------
(* CryptoPrimitives: authenticated encryption, output ciphertext then tag *)

keystream(k, n, j) == (k[1] + 3 * n[1] + 7 * j) % ByteMod
mac(k, n, ct) ==
  [t \in 1..TagLen |->
     (Sum(ct) + 5 * k[KeyLen] + 11 * n[NonceLen] + Len(ct) + t) % ByteMod]
crypto_ae_lock(k, n, m) ==
  LET ct == [j \in 1..Len(m) |-> (m[j] + keystream(k, n, j)) % ByteMod]
  IN ct \o mac(k, n, ct)
crypto_ae_unlock(k, n, c, mln) ==
  LET ct == SubSeq(c, 1, mln)
      tag == SubSeq(c, mln + 1, mln + TagLen)
  IN IF tag = mac(k, n, ct)
     THEN [r |-> 0,
           m |-> [j \in 1..mln |-> (ct[j] + ByteMod - keystream(k, n, j)) % ByteMod]]
     ELSE [r |-> -1, m |-> <<>>]

----------------------------------------------------------------------------
(* ln_ae_lock *)

\* faulty variant: the prefix length is not checked
lock_check_no_prefix(kln, nln, pfxln) ==
  IF nln # NonceLen THEN "bad nonce size"
  ELSE IF kln # KeyLen THEN "bad key size"
  ELSE ""

lock_check(kln, nln, pfxln) ==
  IF nln # NonceLen THEN "bad nonce size"
  ELSE IF kln # KeyLen THEN "bad key size"
  ELSE IF (pfxln % PfxAlign) # 0 THEN "bad prefix size"
  ELSE ""

lock_bufln(mln, pfxln) == size_t(mln + TagLen + pfxln)

\* faulty variant: the primitive writes at the start of the buffer
lock_dst_start(pfxln) == 0

\* where crypto_ae_lock writes: buf + pfxln
lock_dst(pfxln) == pfxln

ln_ae_lock(k, n, m, pfxarg) ==
  LET pfx == luaL_optlstring(pfxarg, <<>>)
      mln == Len(m)
      pfxln == Len(pfx)
      e == lock_check(Len(k), Len(n), pfxln)
  IN IF e # "" THEN LERR(e)
     ELSE LET bufln == lock_bufln(mln, pfxln)
              buf0 == malloc(bufln)
              buf1 == memwrite(buf0, lock_dst(pfxln), crypto_ae_lock(k, n, m))
              buf2 == IF pfxln > 0 THEN memwrite(buf1, 0, pfx) ELSE buf1
          IN Return(<<lua_pushlstring(buf2, bufln)>>,
                    <<[f |-> "crypto_ae_lock", k |-> k, n |-> n, m |-> m,
                       dst |-> lock_dst(pfxln)]>>)

----------------------------------------------------------------------------
(* ln_ae_unlock *)

unlock_check(kln, nln) ==
  IF nln # NonceLen THEN "bad nonce size"
  ELSE IF kln # KeyLen THEN "bad key size"
  ELSE ""

unlock_mln(cln, i) == size_t(cln - i - TagLen)

\* faulty variant: the primitive reads from the start of the envelope
unlock_src_start(i) == 0

\* where crypto_ae_unlock reads: c + i
unlock_src(i) == i

\* the primitive reads [src, src + mln + TagLen) of c and writes mln bytes to a
\* buffer of cln bytes
InBounds(src, mln, cln) ==
  /\ 0 <= src
  /\ src + mln + TagLen <= cln
  /\ mln <= cln

\* faulty variant: a failed verification raises a Lua error
unlock_fail_raised(prim) ==
  [st |-> "error", ret |-> <<>>, err |-> "unlock error", prim |-> prim]

unlock_fail(prim) == Return(<<LNil, LText("unlock error")>>, prim)

\* faulty variant: the bytes returned are taken from the envelope
unlock_push_envelope(buf, c, mln) == lua_pushlstring(c, mln)

\* the plaintext is pushed from the working buffer
unlock_push(buf, c, mln) == lua_pushlstring(buf, mln)

\* i is a C int; the offsets of the model lie within its range, where the
\* conversion from lua_Integer keeps the value.
\* the set of outcomes of the call: one, unless the call reads or writes out of
\* bounds, where the C standard allows any (the primitive never returns, or it
\* returns either verdict).  prim[1].r is <<>> or <<the primitive's result>>.
ln_ae_unlock(k, n, c, iarg) ==
  LET cln == Len(c)
      i == luaL_optinteger(iarg, 0)
      e == unlock_check(Len(k), Len(n))
  IN IF e # "" THEN {LERR(e)}
     ELSE LET mln == unlock_mln(cln, i)
              src == unlock_src(i)
              prim(rv) == <<[f |-> "crypto_ae_unlock", k |-> k, n |-> n,
                             src |-> src, mln |-> mln, cap |-> cln, r |-> rv]>>
          IN IF InBounds(src, mln, cln)
             THEN LET r == crypto_ae_unlock(k, n, SubSeq(c, src + 1, cln), mln)
                      buf == memwrite(malloc(cln), 0, r.m)
                  IN IF r.r # 0 THEN {unlock_fail(prim(<<r.r>>))}
                     ELSE {Return(<<unlock_push(buf, c, mln)>>, prim(<<0>>))}
             ELSE {Abort(prim(<<>>)), unlock_fail(prim(<<-1>>)),
                   Return(<<LUndef(mln)>>, prim(<<0>>))}

----------------------------------------------------------------------------
(* CryptoPrimitives: Diffie-Hellman in the multiplicative group modulo P *)

P == 251
G == 6

RECURSIVE PowMod(_, _)
PowMod(b, e) ==
  IF e = 0 THEN 1
  ELSE LET h == PowMod(b, e \div 2)
       IN IF e % 2 = 0 THEN (h * h) % P ELSE (((h * h) % P) * b) % P

scalar(sk) == 1 + (sk[1] % (P - 1))
crypto_x25519_public_key(sk) ==
  [j \in 1..X25519Len |-> IF j = 1 THEN PowMod(G, scalar(sk)) ELSE 0]
crypto_lock_key(sk, pk) ==
  LET shared == PowMod(pk[1] % P, scalar(sk))
  IN [j \in 1..KeyLen |-> (shared + 13 * j) % ByteMod]

\* the bytes the random source supplies are any; the model draws them by seed
randombytes(xlen, seed) == [j \in 1..xlen |-> (seed + j - 1) % ByteMod]

----------------------------------------------------------------------------
(* ln_x25519_keypair *)

\* faulty variant: the public key is derived from a zeroed buffer
keypair_derive_zeroed(sk) ==
  crypto_x25519_public_key([j \in 1..X25519Len |-> 0])

keypair_derive(sk) == crypto_x25519_public_key(sk)

\* the two lua_pushlstring calls, in their order
keypair_push(pk, sk) == <<lua_pushlstring(pk, X25519Len), lua_pushlstring(sk, X25519Len)>>

ln_x25519_keypair(rnd) ==
  LET sk == rnd
      pk == keypair_derive(sk)
  IN Return(keypair_push(pk, sk), <<[f |-> "crypto_x25519_public_key", sk |-> sk]>>)

(* ln_x25519_public_key *)

public_key_check(skln) == IF skln # X25519Len THEN "bad sk size" ELSE ""

ln_x25519_public_key(sk) ==
  LET e == public_key_check(Len(sk))
  IN IF e # "" THEN LERR(e)
     ELSE Return(<<lua_pushlstring(crypto_x25519_public_key(sk), X25519Len)>>,
                 <<[f |-> "crypto_x25519_public_key", sk |-> sk]>>)

(* ln_lock_key.  The source assigns the primitive's result to r, which the
   function does not declare; the call and its arguments are as modelled. *)

lock_key_check(skln, pkln) ==
  IF pkln # X25519Len THEN "bad pk size"
  ELSE IF skln # X25519Len THEN "bad sk size"
  ELSE ""

\* faulty variant: the public key is passed where the secret key belongs
lock_key_args_swapped(sk, pk) == <<pk, sk>>

\* the arguments crypto_lock_key is given after the output buffer, in order
lock_key_args(sk, pk) == <<sk, pk>>

ln_lock_key(sk, pk) ==
  LET e == lock_key_check(Len(sk), Len(pk))
      a == lock_key_args(sk, pk)
  IN IF e # "" THEN LERR(e)
     ELSE Return(<<lua_pushlstring(crypto_lock_key(a[1], a[2]), KeyLen)>>,
                 <<[f |-> "crypto_lock_key", sk |-> a[1], pk |-> a[2]]>>)

----------------------------------------------------------------------------
(* Inputs of the callers *)

Pattern(len, seed) == [j \in 1..len |-> (seed + j - 1) % ByteMod]

KeySeeds == {1, 2}
NonceSeeds == {3, 4}
PfxSeeds == {16, 200}
MsgBytes == {0, 255}
FlipBits == {0, 3, 7}

GoodKeys == {Pattern(KeyLen, s) : s \in KeySeeds}
Keys == GoodKeys \cup {Pattern(l, 1) : l \in {0, KeyLen - 1, KeyLen + 1}}
GoodNonces == {Pattern(NonceLen, s) : s \in NonceSeeds}
Nonces == GoodNonces \cup {Pattern(l, 3) : l \in {0, NonceLen - 1, NonceLen + 1}}
Msgs == UNION {[1..l -> MsgBytes] : l \in 0..MaxMsgLen}
PrefixArgs ==
  {NoArg} \cup {LStr(Pattern(l, s)) : l \in 0..(PfxAlign * MaxPfxBlocks + 1), s \in PfxSeeds}
RawEnvs == {Pattern(l, 9) : l \in 0..(TagLen + 1)}

SecretKeys == {randombytes(X25519Len, s) : s \in 1..MaxSeed}
BadKeys == {Pattern(l, 1) : l \in {0, X25519Len - 1, X25519Len + 1}}

FlipBit(b, bit) == IF (b \div (2 ^ bit)) % 2 = 1 THEN b - 2 ^ bit ELSE b + 2 ^ bit
Flip(c, pos, bit) == [c EXCEPT ![pos] = FlipBit(c[pos], bit)]

BaseEnvs == IF box = <<>> THEN RawEnvs ELSE {box[1].env}
BoxPfxLen == IF box = <<>> THEN 0 ELSE Len(box[1].pfx)
BoxKeys == IF box = <<>> THEN GoodKeys ELSE {box[1].k}
BoxNonces == IF box = <<>> THEN GoodNonces ELSE {box[1].n}
Offsets(c) == (0 - TagLen - 1) .. (Len(c) + 1)

----------------------------------------------------------------------------
(* The callers *)

Init ==
  /\ fn = ""
  /\ args = <<>>
  /\ out = Return(<<>>, <<>>)
  /\ drawn = <<>>
  /\ box = <<>>
  /\ ring = <<>>

\* A caller runs one scenario at a time: Lock then Unlock, or key derivations
\* then a session key, and then starts over (the library keeps no state).
Lock ==
  /\ fn = ""
  /\ \E k \in Keys, n \in Nonces, m \in Msgs, pfx \in PrefixArgs :
    LET r == ln_ae_lock(k, n, m, pfx)
    IN /\ fn' = "ae_lock"
       /\ args' = <<LStr(k), LStr(n), LStr(m), pfx>>
       /\ out' = r
       /\ drawn' = <<>>
       /\ box' = IF r.st = "return"
                 THEN <<[k |-> k, n |-> n, m |-> m,
                         pfx |-> luaL_optlstring(pfx, <<>>), env |-> r.ret[1].b]>>
                 ELSE <<>>
       /\ ring' = <<>>

UnlockCall(k, n, c, iarg) ==
  \E r \in ln_ae_unlock(k, n, c, iarg) :
    /\ fn' = "ae_unlock"
    /\ args' = <<LStr(k), LStr(n), LStr(c), iarg>>
    /\ out' = r
    /\ drawn' = <<>>
    /\ ring' = <<>>
    /\ UNCHANGED box

\* the envelope is the caller's last Lock result (or, without one, any byte
\* string), as it is, with one bit flipped, or read at any offset
Unlock ==
  /\ fn = "" \/ (fn = "ae_lock" /\ box # <<>>)
  /\ \/ \E k \in Keys, n \in Nonces, c \in BaseEnvs, i \in {NoArg, LInt(BoxPfxLen)} :
          UnlockCall(k, n, c, i)
     \/ \E k \in BoxKeys, n \in BoxNonces, c \in BaseEnvs :
          \E pos \in 1..Len(c), bit \in FlipBits :
            /\ box # <<>>
            /\ UnlockCall(k, n, Flip(c, pos, bit), LInt(BoxPfxLen))
     \/ \E k \in BoxKeys, n \in BoxNonces, c \in BaseEnvs :
          \E o \in Offsets(c) : UnlockCall(k, n, c, LInt(o))

KxPhase == box = <<>> /\ fn \in {"", "x25519_keypair", "x25519_public_key"}

Keypair ==
  /\ KxPhase
  /\ Len(ring) < 2
  /\ \E seed \in 1..MaxSeed :
    LET rnd == randombytes(X25519Len, seed)
        r == ln_x25519_keypair(rnd)
    IN /\ fn' = "x25519_keypair"
       /\ args' = <<>>
       /\ out' = r
       /\ drawn' = rnd
       \* the caller reads the pair in the order the function returns it
       /\ ring' = Append(ring, [sk |-> r.ret[2].b, pk |-> r.ret[1].b])
       /\ UNCHANGED box

PublicKey ==
  /\ KxPhase
  /\ Len(ring) < 2
  /\ \E sk \in SecretKeys \cup BadKeys :
    LET r == ln_x25519_public_key(sk)
    IN /\ fn' = "x25519_public_key"
       /\ args' = <<LStr(sk)>>
       /\ out' = r
       /\ drawn' = <<>>
       /\ ring' = IF r.st = "return" THEN Append(ring, [sk |-> sk, pk |-> r.ret[1].b])
                  ELSE ring
       /\ UNCHANGED box

LockKey ==
  /\ KxPhase
  /\ \E sk \in {ring[j].sk : j \in 1..Len(ring)} \cup BadKeys,
        pk \in {ring[j].pk : j \in 1..Len(ring)} \cup BadKeys :
       /\ fn' = "lock_key"
       /\ args' = <<LStr(sk), LStr(pk)>>
       /\ out' = ln_lock_key(sk, pk)
       /\ drawn' = <<>>
       /\ UNCHANGED <<box, ring>>

Forget ==
  /\ fn # ""
  /\ fn' = ""
  /\ args' = <<>>
  /\ out' = Return(<<>>, <<>>)
  /\ drawn' = <<>>
  /\ box' = <<>>
  /\ ring' = <<>>

Next == Lock \/ Unlock \/ Keypair \/ PublicKey \/ LockKey \/ Forget

Spec == Init /\ [][Next]_vars

----------------------------------------------------------------------------
(* The call the state records *)

ArgK == args[1].b
ArgN == args[2].b
ArgC == args[3].b
ArgI == luaL_optinteger(args[4], 0)
ValidKN == Len(ArgK) = KeyLen /\ Len(ArgN) = NonceLen
AuthFailure == out.st = "return" /\ out.ret = <<LNil, LText("unlock error")>>

\* the caller unlocks the envelope its Lock returned, with the same key and
\* nonce, at the offset of the prefix length
UnlocksBox ==
  /\ fn = "ae_unlock"
  /\ box # <<>>
  /\ ArgK = box[1].k
  /\ ArgN = box[1].n
  /\ ArgC = box[1].env
  /\ ArgI = Len(box[1].pfx)

\* C1: unlocking, at offset len(prefix), what Lock returned for (key, nonce,
\* plaintext, prefix) succeeds and returns exactly the plaintext.
C1_RoundTrip ==
  UnlocksBox => out.st = "return" /\ out.ret = <<LStr(box[1].m)>>

C1_Witness ==
  /\ UnlocksBox
  /\ Len(box[1].pfx) > 0
  /\ Len(box[1].m) > 0
  /\ out.ret = <<LStr(box[1].m)>>

\* C2: for valid inputs Lock returns a buffer of len(prefix) + len(plaintext)
\* + 16 bytes: the prefix unchanged, then the primitive's output for (key,
\* nonce, plaintext).
C2_EnvelopeLayout ==
  fn = "ae_lock" =>
    LET pfx == luaL_optlstring(args[4], <<>>)
        m == args[3].b
    IN (ValidKN /\ Len(pfx) % PfxAlign = 0) =>
         /\ out.st = "return"
         /\ Len(out.ret) = 1
         /\ Len(out.ret[1].b) = Len(pfx) + Len(m) + TagLen
         /\ SubSeq(out.ret[1].b, 1, Len(pfx)) = pfx
         /\ SubSeq(out.ret[1].b, Len(pfx) + 1, Len(out.ret[1].b))
              = crypto_ae_lock(ArgK, ArgN, m)

C2_Witness ==
  /\ fn = "ae_lock"
  /\ out.st = "return"
  /\ args[4] # NoArg
  /\ Len(args[4].b) = PfxAlign
  /\ Len(args[3].b) = MaxMsgLen
  /\ Len(out.ret[1].b) = PfxAlign + MaxMsgLen + TagLen

\* the envelope is the one Lock returned with one bit of its ciphertext or tag
\* flipped
Tampered ==
  /\ fn = "ae_unlock"
  /\ box # <<>>
  /\ ArgK = box[1].k
  /\ ArgN = box[1].n
  /\ ArgI = Len(box[1].pfx)
  /\ \E pos \in (Len(box[1].pfx) + 1)..Len(box[1].env), bit \in 0..7 :
       ArgC = Flip(box[1].env, pos, bit)

\* C3: when the primitive's verification fails, and so for every envelope
\* with one flipped bit of ciphertext or tag, Unlock returns (nil, message)
\* as an ordinary result: no error is raised, no plaintext is returned.
C3_AuthFailureReturned ==
  /\ (fn = "ae_unlock" /\ out.prim # <<>> /\ out.prim[1].r \notin {<<>>, <<0>>})
       => AuthFailure /\ out.err = ""
  /\ Tampered => AuthFailure /\ out.err = "" /\ out.prim[1].r = <<-1>>

C3_Witness ==
  /\ Tampered
  /\ Len(box[1].m) > 0
  /\ AuthFailure

\* C4 as claimed: a negative len(envelope) - offset - 16 makes Unlock fail
\* with InvalidInput, the primitive not being called.
C4_NegativeLengthRejected ==
  (fn = "ae_unlock" /\ ValidKN /\ Len(ArgC) - ArgI - TagLen < 0)
    => out.st = "error" /\ out.prim = <<>>

\* C5: a key, nonce, prefix, secret key or public key of the wrong size makes
\* the call raise an error, before any primitive is called and with nothing
\* returned.
C5_SizeValidation ==
  LET Rejected == out.st = "error" /\ out.err # "" /\ out.ret = <<>> /\ out.prim = <<>>
  IN /\ (fn = "ae_lock" /\ (~ValidKN \/ Len(luaL_optlstring(args[4], <<>>)) % PfxAlign # 0))
          => Rejected
     /\ (fn = "ae_unlock" /\ ~ValidKN) => Rejected
     /\ (fn = "x25519_public_key" /\ Len(args[1].b) # X25519Len) => Rejected
     /\ (fn = "lock_key" /\ (Len(args[1].b) # X25519Len \/ Len(args[2].b) # X25519Len))
          => Rejected

C5_Witness ==
  /\ fn = "ae_lock"
  /\ ValidKN
  /\ Len(luaL_optlstring(args[4], <<>>)) = PfxAlign + 1
  /\ out.st = "error"
  /\ out.err = "bad prefix size"

\* the envelopes that agree with c from position offset on (0-based) and
\* differ before it
PrefixVariants(c, offset) ==
  {[j \in 1..Len(c) |-> IF j <= offset THEN (c[j] + d) % ByteMod ELSE c[j]] : d \in {1, 128}}
  \cup {[c EXCEPT ![p] = (c[p] + 1) % ByteMod] : p \in 1..offset}

\* C6: Unlock at an offset within the envelope gives the same outcome for
\* every envelope that has the same bytes from the offset on.
C6_PrefixIndependence ==
  (fn = "ae_unlock" /\ ValidKN /\ 0 <= ArgI /\ ArgI <= Len(ArgC) - TagLen)
    => \A c2 \in PrefixVariants(ArgC, ArgI) :
         ln_ae_unlock(ArgK, ArgN, c2, args[4]) = {out}

C6_Witness ==
  /\ UnlocksBox
  /\ ArgI > 0
  /\ Len(box[1].m) > 0
  /\ out.ret = <<LStr(box[1].m)>>
  /\ PrefixVariants(ArgC, ArgI) # {}
  /\ ArgC \notin PrefixVariants(ArgC, ArgI)

\* C7: GenerateKeypair returns the 32 bytes it drew from the random source
\* and, with them, the public key DerivePublicKey gives for these bytes.
C7_KeypairDerived ==
  fn = "x25519_keypair" =>
    /\ out.st = "return"
    /\ Len(out.ret) = 2
    /\ Len(drawn) = X25519Len
    /\ \E j \in 1..2 :
         /\ out.ret[j] = LStr(drawn)
         /\ <<out.ret[3 - j]>> = ln_x25519_public_key(drawn).ret

C7_Witness ==
  /\ fn = "x25519_keypair"
  /\ Len(drawn) = X25519Len
  /\ LStr(drawn) \in {out.ret[1], out.ret[2]}
  /\ Len(ring) = 2

\* C8 as claimed: the first value GenerateKeypair returns is the secret key,
\* the second the public key derived from it.
C8_SecretKeyFirst ==
  fn = "x25519_keypair" =>
    /\ out.ret[1] = LStr(drawn)
    /\ out.ret[2] = LStr(crypto_x25519_public_key(drawn))

\* the caller derives a session key from one pair's secret key and another
\* pair's public key
Exchange(a, b) ==
  /\ fn = "lock_key"
  /\ a \in 1..Len(ring)
  /\ b \in 1..Len(ring)
  /\ args = <<LStr(ring[a].sk), LStr(ring[b].pk)>>

\* C9: DeriveSessionKey(skA, pkB) = DeriveSessionKey(skB, pkA), a 32-byte key,
\* the primitive being given the caller's secret key first and the peer's
\* public key second.
C9_DHSymmetry ==
  \A a, b \in 1..2 :
    Exchange(a, b) =>
      /\ out.st = "return"
      /\ Len(out.ret) = 1
      /\ Len(out.ret[1].b) = KeyLen
      /\ out.ret = ln_lock_key(ring[b].sk, ring[a].pk).ret
      /\ out.prim[1].sk = ring[a].sk
      /\ out.prim[1].pk = ring[b].pk

C9_Witness ==
  /\ Exchange(1, 2)
  /\ ring[1].sk # ring[2].sk
  /\ out.st = "return"
  /\ Len(out.ret[1].b) = KeyLen

\* C10 as claimed: whenever Unlock calls the primitive, the bytes the
\* primitive reads lie within the envelope and the bytes it writes within
\* the working buffer.
C10_UnlockWithinBounds ==
  (fn = "ae_unlock" /\ out.prim # <<>>)
    => InBounds(out.prim[1].src, out.prim[1].mln, out.prim[1].cap)

====
